---- MODULE Spec2Model ----
(***************************************************************************)
(* Rapidgator batch downloader: the popup schedulers (part_000, part_001,  *)
(* popup.js) and the two background workers of background.js (the polling  *)
(* worker, lines 1-199, and the event-driven worker, lines 200-552).       *)
(*                                                                         *)
(* One popup session runs one batch.  `variant` says which popup/worker    *)
(* pair is installed:                                                      *)
(*   "simple"  part_000: the popup clicks the tabs itself                  *)
(*   "poll"    part_001 + background.js 1-199 (processTab, polling)        *)
(*   "event"   popup.js + background.js 200-552 (downloadStates, events)   *)
(***************************************************************************)
EXTENDS Integers, Sequences, FiniteSets, TLC

\* ------------------------------------------------------------------ bounds
\* tabs in a batch against a worker that only answers
MaxTabs == 3
\* tabs in a batch against a worker modelled in full
MaxWorkerTabs == 2
MaxDownloads == 2
\* one call of the polling worker on its own
MaxSoloTabs == 1
MaxSoloDownloads == 1
\* the event-driven worker: downloads created, resumptions of one download,
\* times the popup is closed and opened again
MaxEventDownloads == 1
MaxResumes == 1
MaxReopens == 1
\* 'retryFailed' requests in a run
MaxRetryRequests == 3
MaxOrderRetries == 1

\* The longest last path segment tried, in tokens.
MaxSegLen == 3

\* The scenario of the file name collision.
CollisionTabs == 3
CollisionLimit == 2

\* ------------------------------------------------------- program constants
DOWNLOAD_TIMEOUT_MS == 30000
SEARCH_LIMIT == 10
MAX_RETRY_COUNT == 2

\* Time advances in steps of one timeout; a clock reading beyond the timeout
\* is kept as TimeCap (the code only compares readings against the timeout).
TickMs == DOWNLOAD_TIMEOUT_MS
SLEEP_MS == 300
TimeCap == DOWNLOAD_TIMEOUT_MS + TickMs

\* The event-driven worker's clock advances in half timeouts and is kept up
\* to the timeout.
EventTickMs == DOWNLOAD_TIMEOUT_MS \div 2

None == "none"
\* null where a string (a token sequence) is expected
NullStr == <<"null">>

Min(a, b) == IF a < b THEN a ELSE b

\* ----------------------------------------------------------------- strings
\* A string is a sequence of tokens: single characters, the page suffix
\* ".html", and percent escapes.

\* String.prototype.replace(tok, ''): removes the FIRST occurrence only.
RECURSIVE RemoveFirst(_, _)
RemoveFirst(s, tok) ==
    IF s = <<>> THEN <<>>
    ELSE IF Head(s) = tok THEN Tail(s)
    ELSE <<Head(s)>> \o RemoveFirst(Tail(s), tok)

DecodeToken(tok) ==
    CASE tok = "%62" -> "b"
      [] tok = "%61" -> "a"
      [] OTHER -> tok

\* decodeURIComponent
DecodeURIComponent(s) == [i \in 1..Len(s) |-> DecodeToken(s[i])]

\* A percent sign that starts no escape: decodeURIComponent throws on it.
BadEscape == "%zz"
DecodeThrows(s) == \E i \in 1..Len(s) : s[i] = BadEscape

\* String.prototype.includes
Includes(hay, needle) ==
    \E i \in 0..(Len(hay) - Len(needle)) :
        \A j \in 1..Len(needle) : hay[i + j] = needle[j]

\* ---------------------------------------------------------------- numbers
\* The outcome of parseInt: NaN, or an integer.
NaN == [nan |-> TRUE, val |-> 0]
Num(n) == [nan |-> FALSE, val |-> n]

IsDigit(c) == c \in {"0", "1", "2", "3", "4", "5", "6", "7", "8", "9"}
DigitValue(c) ==
    CASE c = "0" -> 0 [] c = "1" -> 1 [] c = "2" -> 2 [] c = "3" -> 3
      [] c = "4" -> 4 [] c = "5" -> 5 [] c = "6" -> 6 [] c = "7" -> 7
      [] c = "8" -> 8 [] c = "9" -> 9

RECURSIVE ParseDigits(_, _, _)
ParseDigits(s, i, acc) ==
    IF i > Len(s) \/ ~IsDigit(s[i]) THEN acc
    ELSE ParseDigits(s, i + 1, acc * 10 + DigitValue(s[i]))

RECURSIVE SkipSpace(_, _)
SkipSpace(s, i) ==
    IF i <= Len(s) /\ s[i] = " " THEN SkipSpace(s, i + 1) ELSE i

\* parseInt(s, 10) on a string given as the sequence of its characters:
\* leading white space, an optional sign, then the digits up to the first
\* other character; NaN when there is no digit.
ParseInt(s) ==
    LET i == SkipSpace(s, 1)
        signed == i <= Len(s) /\ s[i] \in {"-", "+"}
        j == IF signed THEN i + 1 ELSE i
    IN IF j > Len(s) \/ ~IsDigit(s[j]) THEN NaN
       ELSE IF signed /\ s[i] = "-" THEN Num(0 - ParseDigits(s, j, 0))
       ELSE Num(ParseDigits(s, j, 0))

\* What the max-concurrency input may hold when startDownload runs.
LimitInputs ==
    { <<"1">>, <<"3">>, <<"5", "0">>, <<"0">>, <<"-", "5">>, <<"5", "1">>,
      <<"1", "0", "0">>, <<"a", "b", "c">>, <<>>, <<" ", "2", ".", "9">> }

\* The decimal digits of a limit below ten, as the input holds it.
LimitString(n) == << <<"0", "1", "2", "3", "4", "5", "6", "7", "8", "9">>[n + 1] >>

\* -------------------------------------------------------------------- tabs
\* The last path segment of each tab's page URL.
TabSegments ==
    << <<"a", "%62", ".html">>, <<"a", ".html">>, <<>> >>

\* Three tabs of which the first and the last name the same file.
CollisionSegments ==
    << <<"report.final.pdf", ".html">>, <<"invoice.pdf", ".html">>,
       <<"report.final.pdf", ".html">> >>

Tabs == 1..MaxTabs

VARIABLE segments   \* rapidgatorTabs: the last path segment of each url
VARIABLE limitInput \* maxConcurrentEl.value, as its characters
VARIABLE savedLimit \* storage.local maxConcurrent: the outcome of parseInt
VARIABLE address    \* rapidgatorTabs: each url's file id and what follows its path

\* Every tab shows another file, and its URL ends with the path.
PlainAddress ==
    [t \in Tabs |-> [id |-> <<"1", "2", "3", "4">>[((t - 1) % 4) + 1],
                     tail |-> <<>>]]

\* The tabs show the page of one file; only the URL of tab last ends with
\* the path, the others go on with a fragment.
FragmentAddress(last) ==
    [t \in Tabs |-> [id |-> "1",
                     tail |-> IF t = last THEN <<>> ELSE <<"#c">>]]

TabSegment(t) == segments[((t - 1) % Len(segments)) + 1]

\* processTab, lines 53-64: null when the last segment is empty or
\* decodeURIComponent throws.
ExpectedFilenameOf(lastPart) ==
    IF lastPart = <<>> THEN NullStr
    ELSE IF DecodeThrows(RemoveFirst(lastPart, ".html")) THEN NullStr
    ELSE DecodeURIComponent(RemoveFirst(lastPart, ".html"))

ExpectedFilename(t) == ExpectedFilenameOf(TabSegment(t))

\* ------------------------------------------------------------------- pages
\* The target of the download link in tab t's page, when it has one.
LinkOf(t) == <<"u1", "u2", "u3", "u4">>[((t - 1) % 4) + 1]

\* What the injected script may find in tab t's page: whether it runs at
\* all, the href of a direct rapidgator download link, a .btn-download
\* element, the href of any /download/ link.
TypicalPages(t) ==
    { [ok |-> TRUE,  direct |-> LinkOf(t), btn |-> TRUE,  generic |-> LinkOf(t)],
      [ok |-> TRUE,  direct |-> None, btn |-> TRUE,  generic |-> None],
      [ok |-> TRUE,  direct |-> None, btn |-> FALSE, generic |-> LinkOf(t)],
      [ok |-> TRUE,  direct |-> None, btn |-> FALSE, generic |-> None],
      [ok |-> FALSE, direct |-> None, btn |-> FALSE, generic |-> None] }

\* The href of a link with /download/ that is no rapidgator download link.
OtherLink == "v"

\* Every page: the first link with /download/ is the direct link or an
\* earlier one, and there is one when there is a direct link.
AllPages(t) ==
    { pg \in [ok : BOOLEAN, direct : {None, LinkOf(t)}, btn : BOOLEAN,
              generic : {None, LinkOf(t), OtherLink}] :
        /\ pg.direct # None => pg.generic # None
        /\ ~pg.ok => pg.direct = None /\ ~pg.btn /\ pg.generic = None }

VARIABLE dom        \* per tab: the pages the tab may show when it is clicked

Pages(t) == dom[t]

\* A faulty variant of ClickDownloadButton: the button is tried before the
\* direct link.
ClickButtonFirst(page) ==
    IF ~page.ok THEN [success |-> FALSE, clickedUrl |-> None, clicked |-> {}]
    ELSE IF page.btn
         THEN [success |-> TRUE, clickedUrl |-> None, clicked |-> {"btn"}]
    ELSE IF page.direct # None
         THEN [success |-> TRUE, clickedUrl |-> page.direct,
               clicked |-> {"direct"}]
    ELSE IF page.generic # None
         THEN [success |-> TRUE, clickedUrl |-> page.generic,
               clicked |-> {"generic"}]
    ELSE [success |-> FALSE, clickedUrl |-> None, clicked |-> {}]

\* clickDownloadButton of the polling worker, lines 106-142
ClickDownloadButton(page) ==
    IF ~page.ok THEN [success |-> FALSE, clickedUrl |-> None, clicked |-> {}]
    ELSE IF page.direct # None
         THEN [success |-> TRUE, clickedUrl |-> page.direct,
               clicked |-> {"direct"}]
    ELSE IF page.btn
         THEN [success |-> TRUE, clickedUrl |-> None, clicked |-> {"btn"}]
    ELSE IF page.generic # None
         THEN [success |-> TRUE, clickedUrl |-> page.generic,
               clicked |-> {"generic"}]
    ELSE [success |-> FALSE, clickedUrl |-> None, clicked |-> {}]

\* --------------------------------------------------------------- downloads
\* What the host reports of a download, besides its id and state.
DownloadKinds ==
    { [url |-> "u1", finalUrl |-> "u1", filename |-> <<"a", "b">>],
      [url |-> "x",  finalUrl |-> "u1", filename |-> <<>>],
      [url |-> "x",  finalUrl |-> "x",  filename |-> <<"a">>] }

VARIABLES
    variant,        \* which popup/worker pair runs
    totalTabs,      \* rapidgatorTabs.length; the tabs are 1..totalTabs
    maxConcurrent,  \* the limit startDownload read
    started,        \* startDownload has run in this popup session
    isDownloading,
    currentIndex,
    active,         \* activeSlots / activeDownloads
    completed,
    failed,
    sleepers,       \* processNext invocations suspended in sleep (part_001)
    finishCalls,    \* invocations of finishDownload
    sent,           \* per tab: processTab / click requests issued
    slot,           \* per tab: where the popup is with it
    clearReq,       \* the 'clearStates' request of popup.js
    reply,          \* per tab: the 'startDownload' request of popup.js
    pstate,         \* popup.js downloadStates: per tab, the state shown
    call,           \* per tab: the polling worker's processTab call
    sleepAges,      \* part_001: how long each sleep(300) has lasted, oldest first
    table,          \* the event-driven worker's downloadStates
    order,          \* its keys in insertion order (Map iteration order)
    timers,         \* pending timeouts of monitorDownloadStart
    nextTimerId,    \* the id the next setTimeout returns
    confirming,     \* per tab: handleDownloadConfirmed calls under way
    tabOpen,        \* per tab: the tab has not been closed
    reopens,        \* times the popup was closed and opened again
    retry,          \* per tab: the 'retryFailed' requests under way
    retried,        \* per tab: times handleRetryFailed re-actuated it
    retrySent,      \* 'retryFailed' requests sent so far
    downloads       \* the host's downloads, oldest first; id = position

cfgVars == <<variant, totalTabs, maxConcurrent, segments, limitInput,
             savedLimit, dom, address>>
popupVars == <<started, isDownloading, currentIndex, active,
               completed, failed, sleepers, finishCalls, sent, slot,
               clearReq, reply, pstate>>
pollVars == <<call, sleepAges>>
retryVars == <<retry, retried, retrySent>>
eventVars == <<table, order, timers, nextTimerId, confirming, tabOpen,
               reopens, retryVars>>
envVars == <<downloads>>
vars == <<cfgVars, popupVars, pollVars, eventVars, envVars>>

\* STATE of popup.js:19-25 and background.js:219-225
PENDING == "pending"
CLICKED == "clicked"
DOWNLOADING == "downloading"
COMPLETED == "completed"
FAILED == "failed"

IdleCall ==
    [phase |-> "idle", maxIdBefore |-> 0, clickedUrl |-> None, elapsed |-> 0,
     searches |-> 0, timers |-> 0, settles |-> 0, responses |-> 0,
     success |-> FALSE, downloadId |-> 0, closeFailed |-> FALSE]

\* An entry of downloadStates: age is the time since startTime, timeoutId
\* and downloadId are 0 while the field is undefined.  NoEntry: no entry.
NoEntry ==
    [state |-> None, retryCount |-> 0, age |-> 0, timeoutId |-> 0,
     downloadId |-> 0]

\* The 'retryFailed' requests for one tab, by where they are: sent and not
\* yet received, awaiting tabs.get, awaiting the click, answered with
\* success and the answer not yet handled by the popup.
NoRetry == [sent |-> 0, checking |-> 0, clicking |-> 0, ok |-> 0]

\* The value of every variable but the tabs and the limit at load.
InitState ==
    /\ started = FALSE
    /\ isDownloading = FALSE
    /\ currentIndex = 0
    /\ active = 0
    /\ completed = 0
    /\ failed = 0
    /\ sleepers = 0
    /\ finishCalls = 0
    /\ sent = [t \in Tabs |-> 0]
    /\ slot = [t \in Tabs |-> "queued"]
    /\ clearReq = None
    /\ reply = [t \in Tabs |-> None]
    /\ pstate = [t \in Tabs |-> None]
    /\ call = [t \in Tabs |-> IdleCall]
    /\ sleepAges = <<>>
    /\ table = [t \in Tabs |-> NoEntry]
    /\ order = <<>>
    /\ timers = {}
    /\ nextTimerId = 1
    /\ confirming = [t \in Tabs |-> 0]
    /\ tabOpen = [t \in Tabs |-> TRUE]
    /\ reopens = 0
    /\ retry = [t \in Tabs |-> NoRetry]
    /\ retried = [t \in Tabs |-> 0]
    /\ retrySent = 0
    /\ downloads = <<>>

InitWith(maxTabs, segs) ==
    /\ segments = segs
    /\ address = PlainAddress
    /\ totalTabs \in 0..maxTabs
    /\ maxConcurrent \in 1..maxTabs
    /\ limitInput = LimitString(maxConcurrent)
    /\ savedLimit = NaN
    /\ dom = [t \in Tabs |-> TypicalPages(t)]
    /\ InitState

InitCommon(maxTabs) == InitWith(maxTabs, TabSegments)

\* ================================================================ settings
\* The fallback of startDownload: part_000:115, part_001:124, popup.js:226.
DefaultLimit(v) == IF v = "poll" THEN 3 ELSE 10

\* parseInt(maxConcurrentEl.value, 10) || fallback: NaN and 0 are falsy.
LimitUsed(v, input) ==
    LET p == ParseInt(input) IN
    IF p.nan \/ p.val = 0 THEN DefaultLimit(v) ELSE p.val

\* The user edits the max-concurrency input before starting the batch;
\* maxConcurrent is what startDownload reads from it.
TypeLimit ==
    /\ ~started
    /\ \E input \in LimitInputs :
         /\ input # limitInput
         /\ limitInput' = input
         /\ maxConcurrent' = LimitUsed(variant, input)
    /\ UNCHANGED <<variant, totalTabs, segments, savedLimit, dom, address,
                   popupVars, pollVars, eventVars, envVars>>

\* saveSettings, part_001:46-58 (part_000:41-53, popup.js:144-156): a value
\* below 1 or above 50 is refused; the input is left as it is.
SaveSettings ==
    /\ LET value == ParseInt(limitInput) IN
         /\ ~(~value.nan /\ (value.val < 1 \/ value.val > 50))
         /\ savedLimit' = value
    /\ savedLimit' # savedLimit
    /\ UNCHANGED <<variant, totalTabs, maxConcurrent, segments, limitInput,
                   dom, address, popupVars, pollVars, eventVars, envVars>>

\* ============================================================== scheduler
\* The popup's batch state as one record, so that a synchronous stretch of
\* processNext is one function of it.  adm collects the tabs admitted.
PopupState ==
    [idx |-> currentIndex, act |-> active, comp |-> completed, fail |-> failed,
     slp |-> sleepers, fin |-> finishCalls, isd |-> isDownloading,
     adm |-> {}]

\* Faulty variants of Admissible: the limit is not tested; the last tab is never
\* reached.
AdmissibleNoLimit(idx, act) == idx < totalTabs
AdmissibleOffByOne(idx, act) == idx < totalTabs - 1 /\ act < maxConcurrent

\* The while condition of processNext
\* (part_001:167, part_000:129, popup.js:250).
Admissible(idx, act) == idx < totalTabs /\ act < maxConcurrent

\* currentIndex++ (part_001:169, part_000:131, popup.js:252)
NextIndex(idx) == idx + 1

\* finishDownload (part_001:193-205, part_000:200-206)
FinishDownload(p) == [p EXCEPT !.fin = @ + 1, !.isd = FALSE]

\* A faulty variant of AllDone: the batch counts as done when every tab has
\* been admitted.
AllDoneWhenAdmitted(p) == p.idx >= totalTabs

\* A faulty variant of AllDone: failed tabs are not counted.
AllDoneSuccessOnly(p) == variant \in {"poll", "simple"} /\ p.comp >= totalTabs

\* The completion test after the loop (part_001:184, part_000:155); popup.js
\* has none there.
AllDone(p) ==
    CASE variant = "poll" -> p.comp + p.fail >= totalTabs
      [] variant = "simple" -> p.comp >= totalTabs
      [] OTHER -> FALSE

\* processNext from the loop head to its next suspension: either the next
\* tab is admitted (part_001 then sleeps, the others await the click), or the
\* loop is left and the completion test runs.
ProcessNext(p) ==
    IF Admissible(p.idx, p.act)
    THEN [p EXCEPT !.adm = @ \cup {p.idx + 1},
                   !.idx = NextIndex(p.idx),
                   !.act = @ + 1,
                   !.slp = IF variant = "poll" THEN @ + 1 ELSE @]
    ELSE IF AllDone(p) THEN FinishDownload(p) ELSE p

\* part_000:149-152 and popup.js:284-288: after the sleep the invocation
\* calls processNext() - which runs to its own first await - and then goes
\* round its own loop.
WakeAndContinue(p) == ProcessNext(ProcessNext(p))

SetPopup(p) ==
    /\ currentIndex' = p.idx
    /\ active' = p.act
    /\ completed' = p.comp
    /\ failed' = p.fail
    /\ sleepers' = p.slp
    /\ finishCalls' = p.fin
    /\ isDownloading' = p.isd
    /\ sent' = [t \in Tabs |-> IF t \in p.adm THEN sent[t] + 1 ELSE sent[t]]

Admit(sl, adm) == [t \in Tabs |-> IF t \in adm THEN "active" ELSE sl[t]]

\* A tab handed to the polling worker: processTab runs to its first await,
\* the downloads.search of line 67.
Submit(c, adm) ==
    [t \in Tabs |-> IF t \in adm THEN [IdleCall EXCEPT !.phase = "snapshot"]
                    ELSE c[t]]

\* ------------------------------------------------------- part_001 (polling)
\* sleep(300) of part_001:180 begins for the invocation that admitted a tab.
Slept(ages, p) == IF p.adm # {} THEN Append(ages, 0) ELSE ages

\* Every sleep under way has lasted SLEEP_MS or more.
SleptOut(ages) == [i \in 1..Len(ages) |-> SLEEP_MS]

\* startDownload, part_001:113-191
PollStartDownload ==
    /\ variant = "poll"
    /\ ~isDownloading
    /\ ~started
    /\ totalTabs # 0
    /\ started' = TRUE
    /\ LET p == ProcessNext([PopupState EXCEPT !.isd = TRUE]) IN
         /\ SetPopup(p)
         /\ slot' = Admit(slot, p.adm)
         /\ call' = Submit(call, p.adm)
         /\ sleepAges' = Slept(sleepAges, p)
    /\ UNCHANGED <<cfgVars, clearReq, reply, pstate,
                   eventVars, envVars>>

\* A processNext invocation returns from sleep(300) (part_001:180) and
\* re-evaluates the loop condition.
PollWake ==
    /\ variant = "poll"
    /\ sleepers > 0
    /\ sleepAges[1] >= SLEEP_MS
    /\ LET p == ProcessNext([PopupState EXCEPT !.slp = @ - 1]) IN
         /\ SetPopup(p)
         /\ slot' = Admit(slot, p.adm)
         /\ call' = Submit(call, p.adm)
         /\ sleepAges' = Slept(Tail(sleepAges), p)
    /\ UNCHANGED <<cfgVars, started, clearReq, reply, pstate,
                   eventVars, envVars>>

\* The processTab response reaches the popup: processSingleTab counts it
\* (part_001:149-162) and the then-callback frees the slot and calls
\* processNext (part_001:173-177).
PollResponseHandled(t) ==
    /\ variant = "poll"
    /\ call[t].phase = "responded"
    /\ LET q == IF call[t].success
                THEN [PopupState EXCEPT !.comp = @ + 1, !.act = @ - 1]
                ELSE [PopupState EXCEPT !.fail = @ + 1, !.act = @ - 1]
           p == ProcessNext(q)
       IN /\ SetPopup(p)
          /\ slot' = Admit([slot EXCEPT ![t] = "done"], p.adm)
          /\ call' = Submit([call EXCEPT ![t].phase = "handled"], p.adm)
          /\ sleepAges' = Slept(sleepAges, p)
    /\ UNCHANGED <<cfgVars, started, clearReq, reply, pstate,
                   eventVars, envVars>>

\* -------------------------------------------------------- part_000 (simple)
\* startDownload, part_000:104-162
SimpleStartDownload ==
    /\ variant = "simple"
    /\ ~isDownloading
    /\ ~started
    /\ totalTabs # 0
    /\ started' = TRUE
    /\ LET p == ProcessNext([PopupState EXCEPT !.isd = TRUE]) IN
         /\ SetPopup(p)
         /\ slot' = Admit(slot, p.adm)
    /\ UNCHANGED <<cfgVars, clearReq, reply, pstate,
                   pollVars, eventVars, envVars>>

\* clickDownloadButton(tab) returns or throws (part_000:137-146): the tab is
\* counted either way and the invocation sleeps.
SimpleClickReturns(t) ==
    /\ variant = "simple"
    /\ slot[t] = "active"
    /\ slot' = [slot EXCEPT ![t] = "sleeping"]
    /\ SetPopup([PopupState EXCEPT !.comp = @ + 1, !.act = @ - 1])
    /\ UNCHANGED <<cfgVars, started, clearReq, reply, pstate,
                   pollVars, eventVars, envVars>>

\* part_000:149-157
SimpleWake(t) ==
    /\ variant = "simple"
    /\ slot[t] = "sleeping"
    /\ LET p == WakeAndContinue(PopupState) IN
         /\ SetPopup(p)
         /\ slot' = Admit([slot EXCEPT ![t] = "done"], p.adm)
    /\ UNCHANGED <<cfgVars, started, clearReq, reply, pstate,
                   pollVars, eventVars, envVars>>

\* --------------------------------------------------- popup.js (event-driven)
\* startDownload, popup.js:211-223: up to the await of 'clearStates'.
EventStartDownload ==
    /\ variant = "event"
    /\ ~isDownloading
    /\ ~started
    /\ totalTabs # 0
    /\ started' = TRUE
    /\ isDownloading' = TRUE
    /\ clearReq' = "sent"
    /\ UNCHANGED <<cfgVars, currentIndex, active, completed,
                   failed, sleepers, finishCalls, sent, slot, reply, pstate,
                   pollVars, eventVars, envVars>>

\* The 'clearStates' case of the worker's listener, background.js:256-259.
HandleClearStates ==
    /\ variant = "event"
    /\ clearReq = "sent"
    /\ table' = [t \in Tabs |-> NoEntry]
    /\ order' = <<>>
    /\ clearReq' = "done"
    /\ UNCHANGED <<cfgVars, started, isDownloading,
                   currentIndex, active, completed, failed, sleepers,
                   finishCalls, sent, slot, reply, pstate, pollVars, envVars,
                   timers, nextTimerId, confirming, tabOpen, reopens, retryVars>>

\* startDownload, popup.js:224-292: the states are initialised and the
\* first processNext runs.
EventBatchBegins ==
    /\ variant = "event"
    /\ clearReq = "done"
    /\ clearReq' = None
    /\ pstate' = [t \in Tabs |-> IF t <= totalTabs THEN PENDING ELSE None]
    /\ LET p == ProcessNext(PopupState) IN
         /\ SetPopup(p)
         /\ slot' = Admit(slot, p.adm)
         /\ reply' = [t \in Tabs |-> IF t \in p.adm THEN "sent" ELSE reply[t]]
    /\ UNCHANGED <<cfgVars, started, pollVars, eventVars,
                   envVars>>

\* The 'startDownload' response arrives, popup.js:265-284.
EventResponse(t) ==
    /\ variant = "event"
    /\ slot[t] = "active"
    /\ reply[t] \in {"ok", "fail"}
    /\ pstate' = [pstate EXCEPT ![t] = IF reply[t] = "ok" THEN CLICKED
                                       ELSE FAILED]
    /\ reply' = [reply EXCEPT ![t] = None]
    /\ slot' = [slot EXCEPT ![t] = "sleeping"]
    /\ SetPopup([PopupState EXCEPT !.act = @ - 1])
    /\ UNCHANGED <<cfgVars, started, clearReq, pollVars,
                   eventVars, envVars>>

\* popup.js:284-288
EventWake(t) ==
    /\ variant = "event"
    /\ slot[t] = "sleeping"
    /\ LET p == WakeAndContinue(PopupState) IN
         /\ SetPopup(p)
         /\ slot' = Admit([slot EXCEPT ![t] = "done"], p.adm)
         /\ reply' = [u \in Tabs |-> IF u \in p.adm THEN "sent" ELSE reply[u]]
    /\ UNCHANGED <<cfgVars, started, clearReq, pstate,
                   pollVars, eventVars, envVars>>

\* ----------------------------------------- the workers seen from the popup
\* The polling worker's listener, background.js:21-33: whatever processTab
\* does, the request is answered once, with success or with a failure.
ProcessTabAnswers(t) ==
    /\ variant = "poll"
    /\ call[t].phase = "snapshot"
    /\ \E ok \in BOOLEAN :
         call' = [call EXCEPT ![t].phase = "responded", ![t].success = ok,
                              ![t].responses = @ + 1]
    /\ UNCHANGED <<cfgVars, sleepAges, popupVars, eventVars, envVars>>

\* The event-driven worker's listener, background.js:240-244: the
\* 'startDownload' request is answered with the result of handleStartDownload.
StartDownloadAnswers(t) ==
    /\ variant = "event"
    /\ reply[t] = "sent"
    /\ \E r \in {"ok", "fail"} : reply' = [reply EXCEPT ![t] = r]
    /\ UNCHANGED <<cfgVars, started, isDownloading,
                   currentIndex, active, completed, failed, sleepers,
                   finishCalls, sent, slot, clearReq, pstate, pollVars,
                   eventVars, envVars>>

\* ========================================================= polling worker
Truthy(str) == str # NullStr /\ str # <<>>

\* A faulty variant of IsNewDownload: the id is not compared with the snapshot.
IsNewDownloadAnyId(d, maxIdBefore) ==
    d.state \in {"in_progress", "complete"}

\* The filter of lines 164-167.
IsNewDownload(d, maxIdBefore) ==
    /\ d.id > maxIdBefore
    /\ d.state \in {"in_progress", "complete"}

\* The predicate of find, lines 170-181.
Matches(d, expectedFilename, expectedUrl) ==
    \/ expectedUrl # None /\ d.url = expectedUrl
    \/ expectedUrl # None /\ d.finalUrl = expectedUrl
    \/ /\ Truthy(expectedFilename)
       /\ d.filename # <<>>
       /\ Includes(d.filename, expectedFilename)

\* downloads.search({orderBy: ['-startTime'], limit: n}): the n most
\* recently started downloads, as the set of their positions.
Recent(n) == {i \in 1..Len(downloads) : i > Len(downloads) - n}

\* Lines 158-181: the first match among the new downloads, newest first;
\* 0 when there is none.
FindMatch(maxIdBefore, expectedFilename, expectedUrl) ==
    LET cand == {i \in Recent(SEARCH_LIMIT) :
                    /\ IsNewDownload(downloads[i], maxIdBefore)
                    /\ Matches(downloads[i], expectedFilename, expectedUrl)}
    IN IF cand = {} THEN 0
       ELSE downloads[CHOOSE i \in cand : \A j \in cand : j <= i].id

\* sendResponse (lines 24-26) with the result of processTab; its locals are
\* dead from here on.
Respond(c, ok) ==
    [c EXCEPT !.phase = "responded", !.success = ok, !.responses = @ + 1,
              !.clickedUrl = None, !.elapsed = 0, !.maxIdBefore = 0]

\* resolve / reject of the promise of waitForMatchingDownload and, when it
\* was still pending, the continuation of processTab (lines 86-99): the tab
\* is closed after a match, the timeout is answered at once.
Settle(c, matchId) ==
    IF c.settles > 0 THEN [c EXCEPT !.settles = @ + 1]
    ELSE IF matchId # 0
    THEN [c EXCEPT !.settles = 1, !.phase = "close", !.downloadId = matchId]
    ELSE Respond([c EXCEPT !.settles = 1], FALSE)

\* A faulty variant of TimedOut: no time needs to have passed.
TimedOutAtOnce(elapsed) == elapsed >= 0

\* The test of line 152 on Date.now() - startTime.
TimedOut(elapsed) == elapsed > DOWNLOAD_TIMEOUT_MS

\* checkLoop up to its await, lines 151-161.
CheckLoopEnter(c) ==
    IF TimedOut(c.elapsed) THEN Settle(c, 0)
    ELSE [c EXCEPT !.searches = @ + 1]

\* A faulty variant of CheckLoopResume: the next poll is scheduled after a match too.
CheckLoopResumeAlwaysReschedule(c, matchId) ==
    IF matchId # 0
    THEN [Settle([c EXCEPT !.searches = @ - 1], matchId) EXCEPT
              !.timers = @ + 1]
    ELSE [c EXCEPT !.searches = @ - 1, !.timers = @ + 1]

\* checkLoop after its await, lines 163-187.
CheckLoopResume(c, matchId) ==
    IF matchId # 0 THEN Settle([c EXCEPT !.searches = @ - 1], matchId)
    ELSE [c EXCEPT !.searches = @ - 1, !.timers = @ + 1]

\* processTab, lines 66-68: the id of the most recently started download.
PollSnapshotReturns(t) ==
    /\ variant = "poll"
    /\ call[t].phase = "snapshot"
    /\ call' = [call EXCEPT
           ![t].maxIdBefore = IF downloads = <<>> THEN 0
                              ELSE downloads[Len(downloads)].id,
           ![t].phase = "click"]
    /\ UNCHANGED <<cfgVars, sleepAges, popupVars, eventVars, envVars>>

\* processTab, lines 70-85: the click returns (the script does not run in
\* a tab that is gone); on success waitForMatchingDownload starts and
\* checkLoop issues its first search.
PollClickReturns(t) ==
    /\ variant = "poll"
    /\ call[t].phase = "click"
    /\ \E page \in Pages(t) :
         LET r == ClickDownloadButton(page) IN
         /\ tabOpen[t] \/ ~page.ok
         /\ call' = [call EXCEPT ![t] =
             IF r.success
             THEN CheckLoopEnter([@ EXCEPT !.phase = "wait",
                                           !.clickedUrl = r.clickedUrl,
                                           !.elapsed = 0])
             ELSE Respond(@, FALSE)]
    /\ UNCHANGED <<cfgVars, sleepAges, popupVars, eventVars, envVars>>

\* The search of a poll returns (lines 158-187).
PollSearchReturns(t) ==
    /\ variant = "poll"
    /\ call[t].searches > 0
    /\ LET c == call[t]
           m == FindMatch(c.maxIdBefore, ExpectedFilename(t), c.clickedUrl)
       IN call' = [call EXCEPT ![t] = CheckLoopResume(c, m)]
    /\ UNCHANGED <<cfgVars, sleepAges, popupVars, eventVars, envVars>>

\* The downloads.search of line 67 fails: processTab rejects and the
\* listener's catch answers with a failure (lines 24-26).
PollSnapshotFails(t) ==
    /\ variant = "poll"
    /\ call[t].phase = "snapshot"
    /\ call' = [call EXCEPT ![t] = Respond(@, FALSE)]
    /\ UNCHANGED <<cfgVars, sleepAges, popupVars, eventVars, envVars>>

\* The downloads.search of a poll fails (line 158): checkLoop, an async
\* function nobody awaits (lines 186 and 189), rejects; the promise of
\* waitForMatchingDownload is neither resolved nor rejected and no further
\* poll is scheduled.
PollSearchFails(t) ==
    /\ variant = "poll"
    /\ call[t].searches > 0
    /\ call' = [call EXCEPT ![t].searches = @ - 1]
    /\ UNCHANGED <<cfgVars, sleepAges, popupVars, eventVars, envVars>>

\* setTimeout(checkLoop, POLL_INTERVAL_MS) fires (line 186).
PollTimerFires(t) ==
    /\ variant = "poll"
    /\ call[t].timers > 0
    /\ call' = [call EXCEPT ![t] = CheckLoopEnter([@ EXCEPT !.timers = @ - 1])]
    /\ UNCHANGED <<cfgVars, sleepAges, popupVars, eventVars, envVars>>

\* A faulty variant of CloseOutcome: a failed close is answered as a failure.
CloseOutcomeFailing(c, removed) ==
    Respond([c EXCEPT !.closeFailed = ~removed], removed)

\* processTab, lines 88-99: success is answered whether tabs.remove
\* returned or threw.
CloseOutcome(c, removed) ==
    Respond([c EXCEPT !.closeFailed = ~removed], TRUE)

\* tabs.remove returns, or fails because the tab is no longer there (lines
\* 88-96).
PollCloseReturns(t) ==
    /\ variant = "poll"
    /\ call[t].phase = "close"
    /\ call' = [call EXCEPT ![t] = CloseOutcome(@, tabOpen[t])]
    /\ tabOpen' = [tabOpen EXCEPT ![t] = FALSE]
    /\ UNCHANGED <<cfgVars, sleepAges, popupVars, envVars, table, order, timers,
                   nextTimerId, confirming, reopens, retryVars>>

\* ============================================================ environment
\* The host starts a download (at most maxDl of them in a run).
DownloadCreated(maxDl) ==
    /\ variant = "poll"
    /\ Len(downloads) < maxDl
    /\ \E k \in DownloadKinds :
         downloads' = Append(downloads,
             [id |-> Len(downloads) + 1, url |-> k.url, finalUrl |-> k.finalUrl,
              filename |-> k.filename, state |-> "in_progress"])
    /\ UNCHANGED <<cfgVars, popupVars, pollVars, eventVars>>

\* The click of tab t has succeeded.
Clicked(t) == call[t].phase \in {"wait", "close"} \/ call[t].settles > 0

\* The click of tab t was answered as a failure.
ClickRefused(t) ==
    call[t].phase \in {"responded", "handled"} /\ call[t].settles = 0

\* The download the click of tab t caused starts: it comes from the link
\* of the page and its file name contains the name in the tab's URL.  The
\* downloads of tabs clicked earlier have started before it.
ClickDownloadArrives(t) ==
    /\ variant = "poll"
    /\ t <= totalTabs
    /\ Clicked(t)
    /\ \A i \in 1..Len(downloads) : downloads[i].url # LinkOf(t)
    /\ \A u \in 1..(t - 1) :
          \/ ClickRefused(u)
          \/ \E i \in 1..Len(downloads) : downloads[i].url = LinkOf(u)
    /\ downloads' = Append(downloads,
           [id |-> Len(downloads) + 1, url |-> LinkOf(t),
            finalUrl |-> LinkOf(t),
            filename |-> IF Truthy(ExpectedFilename(t))
                         THEN <<"/dl/">> \o ExpectedFilename(t)
                         ELSE <<"/dl/", "file">>,
            state |-> "in_progress"])
    /\ UNCHANGED <<cfgVars, popupVars, pollVars, eventVars>>

\* A download is interrupted, resumed or completes.
DownloadChanged ==
    /\ variant = "poll"
    /\ \E i \in 1..Len(downloads) :
         \E st \in {"in_progress", "complete", "interrupted"} :
           /\ \/ downloads[i].state = "in_progress" /\ st # "in_progress"
              \/ downloads[i].state = "interrupted" /\ st = "in_progress"
           /\ downloads' = [downloads EXCEPT ![i].state = st]
    /\ UNCHANGED <<cfgVars, popupVars, pollVars, eventVars>>

\* The user closes a tab.
TabClosedByUser(t) ==
    /\ t <= totalTabs
    /\ tabOpen[t]
    /\ tabOpen' = [tabOpen EXCEPT ![t] = FALSE]
    /\ UNCHANGED <<cfgVars, popupVars, pollVars, envVars, table, order,
                   timers, nextTimerId, confirming, reopens, retryVars>>

\* Time passes.
Tick ==
    /\ variant = "poll"
    /\ \E t \in Tabs : call[t].phase = "wait" /\ call[t].elapsed < TimeCap
    /\ call' = [t \in Tabs |->
           IF call[t].phase = "wait"
           THEN [call[t] EXCEPT !.elapsed = Min(@ + TickMs, TimeCap)]
           ELSE call[t]]
    /\ sleepAges' = SleptOut(sleepAges)
    /\ UNCHANGED <<cfgVars, popupVars, eventVars, envVars>>

\* Time passes in the popup: the sleeps of part_001:180 run out.
SleepTick ==
    /\ variant = "poll"
    /\ \E i \in 1..Len(sleepAges) : sleepAges[i] < SLEEP_MS
    /\ sleepAges' = SleptOut(sleepAges)
    /\ UNCHANGED <<cfgVars, popupVars, call, eventVars, envVars>>

\* ==================================================== event-driven worker
\* background.js:200-552 with popup.js.

\* The page URL of tab t, the url of its intent.
TabUrl(t) ==
    <<"https://", "rapidgator", ".net/file/", address[t].id, "/">>
        \o TabSegment(t) \o address[t].tail

\* String.prototype.startsWith
StartsWith(s, prefix) ==
    /\ Len(prefix) <= Len(s)
    /\ \A j \in 1..Len(prefix) : s[j] = prefix[j]

\* What the host reports of a created download: with the referrer of the
\* last tab's page, from a rapidgator address without referrer, from
\* elsewhere without referrer.
EventDownloadKinds ==
    { [url |-> <<"cdn">>, finalUrl |-> <<"cdn">>,
       referrer |-> TabUrl(MaxWorkerTabs)],
      [url |-> <<"https://", "rapidgator", "/d">>, finalUrl |-> <<"cdn">>,
       referrer |-> <<>>],
      [url |-> <<"cdn">>, finalUrl |-> <<"cdn">>, referrer |-> <<>>] }

\* clickDownloadButton of the event-driven worker, lines 304-320: only the
\* .btn-download element is tried; executeScript fails on a closed tab.
EventClickDownloadButton(page, open) == open /\ page.ok /\ page.btn

InOrder(t) == \E i \in 1..Len(order) : order[i] = t

\* downloadStates.set(tabId, ...) of lines 275-282: a fresh record; a key
\* already in the Map keeps its place.
NewIntent(tb, t) ==
    [tb EXCEPT ![t] = [state |-> PENDING, retryCount |-> 0, age |-> 0,
                       timeoutId |-> 0, downloadId |-> 0]]

\* startTime is read only while the intent waits for its download (line
\* 498): its age is kept up to then.
SetState(e, newState) ==
    [e EXCEPT !.state = newState,
              !.age = IF newState \in {PENDING, CLICKED} THEN @ ELSE 0]

\* updateState, lines 530-537
UpdateState(tb, t, newState) ==
    IF tb[t].state = None THEN tb
    ELSE [tb EXCEPT ![t] = SetState(@, newState)]

\* A faulty variant of ClickFailed: the error is answered but not recorded.
ClickFailedUnrecorded(tb, t) == tb

\* The catch block of handleStartDownload, lines 295-297.
ClickFailed(tb, t) == UpdateState(tb, t, FAILED)

\* monitorDownloadStart, lines 325-341: nothing without an entry; otherwise
\* a timeout is set and its id stored in the entry.
MonitorTable(tb, t) ==
    IF tb[t].state = None THEN tb
    ELSE [tb EXCEPT ![t].timeoutId = nextTimerId]
MonitorTimers(tb, t) ==
    IF tb[t].state = None THEN timers
    ELSE timers \cup {[id |-> nextTimerId, tabId |-> t, age |-> 0]}

\* ----------------------------------------------- popup.js, notifications
\* handleDownloadStarted / handleDownloadCompleted / handleDownloadFailed,
\* popup.js:91-120.
NotifiedState(ps, event, t) ==
    IF ps[t] = None THEN ps
    ELSE [ps EXCEPT ![t] =
            CASE event = "downloadStarted" -> DOWNLOADING
              [] event = "downloadCompleted" -> COMPLETED
              [] event = "downloadFailed" -> FAILED
              [] OTHER -> @]

\* The test of checkAllCompleted, popup.js:354-365.
NothingPending(ps) ==
    /\ \A t \in Tabs : ps[t] \notin {PENDING, CLICKED, DOWNLOADING}
    /\ \E t \in Tabs : ps[t] # None

\* notifyPopup (background.js:542-546) and the popup's listener
\* (popup.js:50-67): the handler of the event runs, and finishDownload
\* (popup.js:367-384) when checkAllCompleted finds nothing pending.
NotifyPopup(event, t) ==
    /\ pstate' = NotifiedState(pstate, event, t)
    /\ IF /\ pstate[t] # None
          /\ event \in {"downloadCompleted", "downloadFailed"}
          /\ NothingPending(NotifiedState(pstate, event, t))
       THEN /\ finishCalls' = finishCalls + 1
            /\ isDownloading' = FALSE
       ELSE UNCHANGED <<finishCalls, isDownloading>>

NoNotification == UNCHANGED <<pstate, finishCalls, isDownloading>>

\* The popup's variables that no notification touches.
batchVars == <<started, currentIndex, active, completed, failed, sleepers,
               sent, slot, clearReq, reply>>

\* ------------------------------------------------------ handleStartDownload
\* The 'startDownload' case of the listener (lines 240-244) and
\* handleStartDownload up to its await (lines 270-286).
HandleStartDownload(t) ==
    /\ variant = "event"
    /\ reply[t] = "sent"
    /\ table' = NewIntent(table, t)
    /\ order' = IF InOrder(t) THEN order ELSE Append(order, t)
    /\ reply' = [reply EXCEPT ![t] = "clicking"]
    /\ UNCHANGED <<cfgVars, started, isDownloading, currentIndex, active,
                   completed, failed, sleepers, finishCalls, sent, slot,
                   clearReq, pstate, pollVars, envVars, timers, nextTimerId,
                   confirming, tabOpen, reopens, retryVars>>

\* handleStartDownload from the return of the click on (lines 286-298), and
\* the response.
EventClickReturns(t) ==
    /\ variant = "event"
    /\ reply[t] = "clicking"
    /\ \E page \in Pages(t) :
         IF EventClickDownloadButton(page, tabOpen[t])
         THEN /\ table' = MonitorTable(UpdateState(table, t, CLICKED), t)
              /\ timers' = MonitorTimers(table, t)
              /\ nextTimerId' = IF table[t].state = None THEN nextTimerId
                                ELSE nextTimerId + 1
              /\ reply' = [reply EXCEPT ![t] = "ok"]
         ELSE /\ table' = ClickFailed(table, t)
              /\ reply' = [reply EXCEPT ![t] = "fail"]
              /\ UNCHANGED <<timers, nextTimerId>>
    /\ UNCHANGED <<cfgVars, started, isDownloading, currentIndex, active,
                   completed, failed, sleepers, finishCalls, sent, slot,
                   clearReq, pstate, pollVars, envVars, order, confirming,
                   tabOpen, reopens, retryVars>>

\* A faulty variant of TimeoutApplies: the callback fails whatever entry it
\* finds.
TimeoutAppliesAlways(e) == e.state # None

\* The test of the callback of the timeout, line 331.
TimeoutApplies(e) == e.state = CLICKED

\* The callback of the timeout of monitorDownloadStart, lines 329-336.  All
\* timeouts have the same delay, so the one set first is due first.
TimeoutFires ==
    /\ variant = "event"
    /\ timers # {}
    /\ LET tm == CHOOSE x \in timers : \A y \in timers : x.id <= y.id IN
         /\ tm.age >= DOWNLOAD_TIMEOUT_MS
         /\ timers' = timers \ {tm}
         /\ IF TimeoutApplies(table[tm.tabId])
            THEN /\ table' = UpdateState(table, tm.tabId, FAILED)
                 /\ NotifyPopup("downloadFailed", tm.tabId)
            ELSE /\ UNCHANGED table
                 /\ NoNotification
    /\ UNCHANGED <<cfgVars, batchVars, pollVars, envVars, order, nextTimerId,
                   confirming, tabOpen, reopens, retryVars>>

\* -------------------------------------------------------- download events
\* downloadItem.url || downloadItem.finalUrl || '' (line 502)
DownloadUrl(d) == IF d.url # <<>> THEN d.url ELSE d.finalUrl

\* Lines 503-506
IsRapidgatorDownload(d) ==
    \/ Includes(DownloadUrl(d), <<"rapidgator">>)
    \/ Includes(DownloadUrl(d), <<"rg.to">>)
    \/ d.referrer # <<>> /\ Includes(d.referrer, <<"rapidgator">>)

\* A faulty variant of FindMatchingTab: one pass over the table, taking the
\* first CLICKED entry that satisfies any rule.
FindMatchingTabOnePass(d) ==
    LET IsClicked(t) == table[t].state = CLICKED
        clicked == SelectSeq(order, IsClicked)
        AnyRule(t) ==
            \/ /\ d.referrer # <<>>
               /\ \/ d.referrer = TabUrl(t)
                  \/ StartsWith(TabUrl(t), d.referrer)
            \/ /\ table[t].age < DOWNLOAD_TIMEOUT_MS
               /\ IsRapidgatorDownload(d)
        hit == SelectSeq(clicked, AnyRule)
    IN IF hit # <<>> THEN hit[1]
       ELSE IF Len(clicked) = 1 THEN clicked[1]
       ELSE 0

\* findMatchingTab, lines 481-525: the tab id of the entry found, 0 for
\* null.
FindMatchingTab(d) ==
    LET IsClicked(t) == table[t].state = CLICKED
        clicked == SelectSeq(order, IsClicked)
        ByReferrer(t) ==
            \/ d.referrer = TabUrl(t)
            \/ StartsWith(TabUrl(t), d.referrer)
        InTime(t) ==
            /\ table[t].age < DOWNLOAD_TIMEOUT_MS
            /\ IsRapidgatorDownload(d)
        rule1 == IF d.referrer = <<>> THEN <<>>
                 ELSE SelectSeq(clicked, ByReferrer)
        rule2 == SelectSeq(clicked, InTime)
    IN IF rule1 # <<>> THEN rule1[1]
       ELSE IF rule2 # <<>> THEN rule2[1]
       ELSE IF Len(clicked) = 1 THEN clicked[1]
       ELSE 0

\* The host creates a download and the onCreated listener runs, lines
\* 350-370.
EventDownloadCreated ==
    /\ variant = "event"
    /\ Len(downloads) < MaxEventDownloads
    /\ \E k \in EventDownloadKinds :
         LET d == [id |-> Len(downloads) + 1, state |-> "in_progress",
                   resumes |-> 0, url |-> k.url, finalUrl |-> k.finalUrl,
                   referrer |-> k.referrer]
             m == FindMatchingTab(d)
         IN /\ downloads' = Append(downloads, d)
            /\ IF m # 0
               THEN /\ timers' = {tm \in timers :
                                     \/ table[m].timeoutId = 0
                                     \/ tm.id # table[m].timeoutId}
                    /\ table' = [table EXCEPT ![m] =
                           SetState([@ EXCEPT !.downloadId = d.id],
                                    DOWNLOADING)]
                    /\ NotifyPopup("downloadStarted", m)
               ELSE /\ UNCHANGED <<timers, table>>
                    /\ NoNotification
    /\ UNCHANGED <<cfgVars, batchVars, pollVars, order, nextTimerId,
                   confirming, tabOpen, reopens, retryVars>>

\* The host delivers the creation of a download a second time and the
\* onCreated listener runs again on the same item, lines 350-370.
EventDownloadCreatedAgain ==
    /\ variant = "event"
    /\ \E i \in 1..Len(downloads) :
         LET d == [downloads[i] EXCEPT !.state = "in_progress"]
             m == FindMatchingTab(d)
         IN IF m # 0
            THEN /\ timers' = {tm \in timers :
                                  \/ table[m].timeoutId = 0
                                  \/ tm.id # table[m].timeoutId}
                 /\ table' = [table EXCEPT ![m] =
                        SetState([@ EXCEPT !.downloadId = d.id],
                                 DOWNLOADING)]
                 /\ NotifyPopup("downloadStarted", m)
            ELSE /\ UNCHANGED <<timers, table>>
                 /\ NoNotification
    /\ UNCHANGED <<cfgVars, batchVars, pollVars, envVars, order, nextTimerId,
                   confirming, tabOpen, reopens, retryVars>>

\* Lines 377-378: the first entry, in Map order, with this downloadId.
FindByDownloadId(id) ==
    LET Has(t) == table[t].downloadId = id
        hit == SelectSeq(order, Has)
    IN IF hit = <<>> THEN 0 ELSE hit[1]

\* A download completes, is interrupted or is resumed, and the onChanged
\* listener runs, lines 375-401.  handleDownloadConfirmed (lines 406-412)
\* starts its delay when the new state is in_progress.
EventDownloadChanged ==
    /\ variant = "event"
    /\ \E i \in 1..Len(downloads) :
         \E st \in {"in_progress", "complete", "interrupted"} :
           /\ \/ downloads[i].state = "in_progress" /\ st # "in_progress"
              \/ /\ downloads[i].state = "interrupted"
                 /\ st = "in_progress"
                 /\ downloads[i].resumes < MaxResumes
           /\ downloads' = [downloads EXCEPT
                  ![i].state = st,
                  ![i].resumes = IF st = "in_progress" THEN @ + 1 ELSE @]
           /\ LET m == FindByDownloadId(downloads[i].id) IN
                IF m = 0
                THEN /\ UNCHANGED <<table, confirming>>
                     /\ NoNotification
                ELSE IF st = "in_progress"
                THEN /\ confirming' = [confirming EXCEPT ![m] = @ + 1]
                     /\ UNCHANGED table
                     /\ NoNotification
                ELSE IF st = "complete"
                THEN /\ table' = UpdateState(table, m, COMPLETED)
                     /\ NotifyPopup("downloadCompleted", m)
                     /\ UNCHANGED confirming
                ELSE /\ table' = UpdateState(table, m, FAILED)
                     /\ NotifyPopup("downloadFailed", m)
                     /\ UNCHANGED confirming
    /\ UNCHANGED <<cfgVars, batchVars, pollVars, order, timers, nextTimerId,
                   tabOpen, reopens, retryVars>>

\* handleDownloadConfirmed after its delay, lines 412-422: tabs.remove
\* closes the tab, or fails on a tab already closed; the intent is not
\* touched, and the popup only logs the tabClosed notification.
ConfirmedCloseReturns(t) ==
    /\ variant = "event"
    /\ confirming[t] > 0
    /\ confirming' = [confirming EXCEPT ![t] = @ - 1]
    /\ tabOpen' = [tabOpen EXCEPT ![t] = FALSE]
    /\ UNCHANGED <<cfgVars, popupVars, pollVars, envVars, table, order,
                   timers, nextTimerId, reopens, retryVars>>

\* Time passes: half a timeout.
EventTick ==
    /\ variant = "event"
    /\ table' = [t \in Tabs |->
           IF table[t].state \in {PENDING, CLICKED}
           THEN [table[t] EXCEPT
                    !.age = Min(@ + EventTickMs, DOWNLOAD_TIMEOUT_MS)]
           ELSE table[t]]
    /\ timers' = {[tm EXCEPT !.age = Min(@ + EventTickMs, DOWNLOAD_TIMEOUT_MS)] :
                     tm \in timers}
    /\ table' # table \/ timers' # timers
    /\ UNCHANGED <<cfgVars, popupVars, pollVars, envVars, order, nextTimerId,
                   confirming, tabOpen, reopens, retryVars>>

\* The user closes the popup and opens it again while no request of it is
\* outstanding and the tabs of the batch are still open: popup.js starts
\* afresh (lines 13-15, 31-36) and syncStatesFromBackground copies the
\* worker's states (lines 72-85).  The worker keeps running.
PopupReopened ==
    /\ variant = "event"
    /\ reopens < MaxReopens
    /\ started
    /\ clearReq = None
    /\ \A t \in Tabs : reply[t] = None /\ retry[t] = NoRetry
    /\ \A t \in 1..totalTabs : tabOpen[t]
    /\ reopens' = reopens + 1
    /\ started' = FALSE
    /\ isDownloading' = FALSE
    /\ currentIndex' = 0
    /\ active' = 0
    /\ sleepers' = 0
    /\ finishCalls' = 0
    /\ sent' = [t \in Tabs |-> 0]
    /\ slot' = [t \in Tabs |-> "queued"]
    /\ pstate' = [t \in Tabs |-> table[t].state]
    /\ UNCHANGED <<cfgVars, completed, failed, clearReq, reply, pollVars,
                   envVars, table, order, timers, nextTimerId, confirming,
                   tabOpen, retryVars>>

\* ------------------------------------------------------------------- retry
\* retryFailed of popup.js, lines 299-309: only for a tab shown as FAILED
\* (at most maxReq requests in a run).
PopupRetryFailed(t, maxReq) ==
    /\ variant = "event"
    /\ pstate[t] = FAILED
    /\ retrySent < maxReq
    /\ retrySent' = retrySent + 1
    /\ retry' = [retry EXCEPT ![t].sent = @ + 1]
    /\ UNCHANGED <<cfgVars, popupVars, pollVars, envVars, table, order,
                   timers, nextTimerId, confirming, tabOpen, reopens,
                   retried>>

\* The two tests of handleRetryFailed, lines 434 and 438.
RetryAllowed(e) == e.state = FAILED /\ e.retryCount < MAX_RETRY_COUNT

\* handleRetryFailed up to its await, lines 432-444: a request that fails a
\* test is answered with a failure, which the popup only logs.
HandleRetryFailed(t) ==
    /\ variant = "event"
    /\ retry[t].sent > 0
    /\ retry' = [retry EXCEPT
           ![t].sent = @ - 1,
           ![t].checking = IF RetryAllowed(table[t]) THEN @ + 1 ELSE @]
    /\ UNCHANGED <<cfgVars, popupVars, pollVars, envVars, table, order,
                   timers, nextTimerId, confirming, tabOpen, reopens,
                   retried, retrySent>>

\* Lines 449-452: the record held since the tests is updated and put back.
RetryReenter(tb, t) ==
    [tb EXCEPT ![t] = [@ EXCEPT !.retryCount = @ + 1, !.state = PENDING,
                                !.age = 0]]

\* handleRetryFailed after tabs.get, lines 443-454, and handleStartDownload
\* up to its await (lines 270-286): on a closed tab the request is answered
\* with a failure; otherwise the record is updated and handleStartDownload
\* replaces it and starts the click.
RetryTabChecked(t) ==
    /\ variant = "event"
    /\ retry[t].checking > 0
    /\ IF tabOpen[t]
       THEN /\ table' = NewIntent(RetryReenter(table, t), t)
            /\ order' = IF InOrder(t) THEN order ELSE Append(order, t)
            /\ retry' = [retry EXCEPT ![t].checking = @ - 1,
                                      ![t].clicking = @ + 1]
            /\ retried' = [retried EXCEPT ![t] = @ + 1]
       ELSE /\ retry' = [retry EXCEPT ![t].checking = @ - 1]
            /\ UNCHANGED <<table, order, retried>>
    /\ UNCHANGED <<cfgVars, popupVars, pollVars, envVars, timers,
                   nextTimerId, confirming, tabOpen, reopens, retrySent>>

\* handleStartDownload, called by handleRetryFailed, from the return of the
\* click on (lines 286-298), and the response to 'retryFailed'.
RetryClickReturns(t) ==
    /\ variant = "event"
    /\ retry[t].clicking > 0
    /\ \E page \in Pages(t) :
         IF EventClickDownloadButton(page, tabOpen[t])
         THEN /\ table' = MonitorTable(UpdateState(table, t, CLICKED), t)
              /\ timers' = MonitorTimers(table, t)
              /\ nextTimerId' = IF table[t].state = None THEN nextTimerId
                                ELSE nextTimerId + 1
              /\ retry' = [retry EXCEPT ![t].clicking = @ - 1,
                                        ![t].ok = @ + 1]
         ELSE /\ table' = ClickFailed(table, t)
              /\ retry' = [retry EXCEPT ![t].clicking = @ - 1]
              /\ UNCHANGED <<timers, nextTimerId>>
    /\ UNCHANGED <<cfgVars, popupVars, pollVars, envVars, order, confirming,
                   tabOpen, reopens, retried, retrySent>>

\* retryFailed of popup.js, lines 311-315: a success answer arrives.
PopupRetryResponse(t) ==
    /\ variant = "event"
    /\ retry[t].ok > 0
    /\ retry' = [retry EXCEPT ![t].ok = @ - 1]
    /\ pstate' = [pstate EXCEPT ![t] = CLICKED]
    /\ UNCHANGED <<cfgVars, started, isDownloading, currentIndex, active,
                   completed, failed, sleepers, finishCalls, sent, slot,
                   clearReq, reply, pollVars, envVars, table, order, timers,
                   nextTimerId, confirming, tabOpen, reopens, retried,
                   retrySent>>

\* ========================================================= specifications
\* The three schedulers, each against a worker that answers every request.
InitSched == variant \in {"simple", "poll", "event"} /\ InitCommon(MaxTabs)

NextSched ==
    \/ PollStartDownload
    \/ PollWake
    \/ SleepTick
    \/ \E t \in Tabs : PollResponseHandled(t)
    \/ \E t \in Tabs : ProcessTabAnswers(t)
    \/ SimpleStartDownload
    \/ \E t \in Tabs : SimpleClickReturns(t)
    \/ \E t \in Tabs : SimpleWake(t)
    \/ EventStartDownload
    \/ HandleClearStates
    \/ EventBatchBegins
    \/ \E t \in Tabs : StartDownloadAnswers(t)
    \/ \E t \in Tabs : EventResponse(t)
    \/ \E t \in Tabs : EventWake(t)

SpecSched == InitSched /\ [][NextSched]_vars

\* The three popups with whatever the max-concurrency input holds.
InitLimit ==
    /\ variant \in {"simple", "poll", "event"}
    /\ segments = TabSegments
    /\ address = PlainAddress
    /\ totalTabs \in 0..MaxTabs
    /\ limitInput \in LimitInputs
    /\ maxConcurrent = LimitUsed(variant, limitInput)
    /\ savedLimit = NaN
    /\ dom = [t \in Tabs |-> TypicalPages(t)]
    /\ InitState

NextLimit ==
    \/ NextSched
    \/ TypeLimit
    \/ SaveSettings

SpecLimit == InitLimit /\ [][NextLimit]_vars

\* part_001 with the polling worker of background.js:1-199.
InitPoll == variant = "poll" /\ InitCommon(MaxWorkerTabs)

NextPoll ==
    \/ PollStartDownload
    \/ PollWake
    \/ SleepTick
    \/ \E t \in Tabs : PollResponseHandled(t)
    \/ \E t \in Tabs : PollSnapshotReturns(t)
    \/ \E t \in Tabs : PollClickReturns(t)
    \/ \E t \in Tabs : PollSearchReturns(t)
    \/ \E t \in Tabs : PollTimerFires(t)
    \/ \E t \in Tabs : PollCloseReturns(t)
    \/ DownloadCreated(MaxDownloads)
    \/ DownloadChanged
    \/ Tick

SpecPoll == InitPoll /\ [][NextPoll]_vars

\* The same with a single tab.
InitPollSolo == variant = "poll" /\ InitCommon(MaxSoloTabs)

NextPollSolo ==
    \/ PollStartDownload
    \/ PollWake
    \/ SleepTick
    \/ \E t \in Tabs : PollResponseHandled(t)
    \/ \E t \in Tabs : PollSnapshotReturns(t)
    \/ \E t \in Tabs : PollClickReturns(t)
    \/ \E t \in Tabs : PollSearchReturns(t)
    \/ \E t \in Tabs : PollTimerFires(t)
    \/ \E t \in Tabs : PollCloseReturns(t)
    \/ DownloadCreated(MaxSoloDownloads)
    \/ DownloadChanged
    \/ Tick

SpecPollSolo == InitPollSolo /\ [][NextPollSolo]_vars

\* The polling worker with one tab whose page is any page.
InitClick ==
    /\ variant = "poll"
    /\ segments = TabSegments
    /\ address = PlainAddress
    /\ totalTabs \in 0..MaxSoloTabs
    /\ maxConcurrent \in 1..MaxSoloTabs
    /\ limitInput = LimitString(maxConcurrent)
    /\ savedLimit = NaN
    /\ \E f \in [1..MaxSoloTabs -> UNION {AllPages(t) : t \in Tabs}] :
         /\ \A t \in 1..MaxSoloTabs : f[t] \in AllPages(t)
         /\ dom = [t \in Tabs |-> IF t <= MaxSoloTabs THEN {f[t]}
                                  ELSE TypicalPages(t)]
    /\ InitState

SpecClick == InitClick /\ [][NextPollSolo]_vars

\* Three tabs processed one at a time: the last has no file name in its
\* URL.
InitPollSerial ==
    /\ variant = "poll"
    /\ InitCommon(MaxTabs)
    /\ totalTabs = MaxTabs
    /\ maxConcurrent = 1

SpecPollSerial == InitPollSerial /\ [][NextPollSolo]_vars

\* Three tabs, limit 2, the first and the last with the same file name;
\* every successful click causes one download, in the order of the clicks'
\* tabs, and no download is delayed up to the timeout.
InitCollision ==
    /\ variant = "poll"
    /\ InitWith(MaxTabs, CollisionSegments)
    /\ totalTabs = CollisionTabs
    /\ maxConcurrent = CollisionLimit

NextPollClicks ==
    \/ PollStartDownload
    \/ PollWake
    \/ SleepTick
    \/ \E t \in Tabs : PollResponseHandled(t)
    \/ \E t \in Tabs : PollSnapshotReturns(t)
    \/ \E t \in Tabs : PollClickReturns(t)
    \/ \E t \in Tabs : PollSearchReturns(t)
    \/ \E t \in Tabs : PollTimerFires(t)
    \/ \E t \in Tabs : PollCloseReturns(t)
    \/ \E t \in Tabs : ClickDownloadArrives(t)

SpecCollision == InitCollision /\ [][NextPollClicks]_vars

\* One tab whose URL ends in any segment of up to MaxSegLen tokens.
SegmentTokens == {"a", ".html", "%62", BadEscape}

SegmentsUpTo(n) ==
    UNION {[1..k -> SegmentTokens] : k \in 0..n}

InitNames ==
    /\ variant = "poll"
    /\ \E seg \in SegmentsUpTo(MaxSegLen) : InitWith(MaxSoloTabs, <<seg>>)

SpecNames == InitNames /\ [][NextPollSolo]_vars

\* Three tabs processed one at a time, the last without a file name in its
\* URL, every successful click causing one download.
SpecPollClicks == InitPollSerial /\ [][NextPollClicks]_vars

\* part_001 alone, with the scheduling the claims about it assume: timers
\* fire, every processTab request is answered, every answer is delivered.
InitPollSched == variant = "poll" /\ InitCommon(MaxTabs)

NextPollSched ==
    \/ PollStartDownload
    \/ PollWake
    \/ SleepTick
    \/ \E t \in Tabs : PollResponseHandled(t)
    \/ \E t \in Tabs : ProcessTabAnswers(t)

SpecPollSchedFair ==
    /\ InitPollSched
    /\ [][NextPollSched]_vars
    /\ WF_vars(PollWake)
    /\ WF_vars(SleepTick)
    /\ \A t \in Tabs : WF_vars(ProcessTabAnswers(t))
    /\ \A t \in Tabs : WF_vars(PollResponseHandled(t))

\* One tab with the full polling worker, every host call returning or
\* failing; every pending call, timer and handler is eventually served and
\* time passes.
NextPollHost ==
    \/ NextPollSolo
    \/ \E t \in Tabs : PollSnapshotFails(t)
    \/ \E t \in Tabs : PollSearchFails(t)

SpecPollHostFair ==
    /\ InitPollSolo
    /\ [][NextPollHost]_vars
    /\ WF_vars(PollWake)
    /\ WF_vars(SleepTick)
    /\ WF_vars(Tick)
    /\ \A t \in Tabs : WF_vars(PollResponseHandled(t))
    /\ \A t \in Tabs : WF_vars(PollSnapshotReturns(t) \/ PollSnapshotFails(t))
    /\ \A t \in Tabs : WF_vars(PollClickReturns(t))
    /\ \A t \in Tabs : WF_vars(PollSearchReturns(t) \/ PollSearchFails(t))
    /\ \A t \in Tabs : WF_vars(PollTimerFires(t))
    /\ \A t \in Tabs : WF_vars(PollCloseReturns(t))

\* popup.js with the event-driven worker of background.js:200-552.
InitEvent == variant = "event" /\ InitCommon(MaxWorkerTabs)

NextEvent ==
    \/ EventStartDownload
    \/ HandleClearStates
    \/ EventBatchBegins
    \/ \E t \in Tabs : EventResponse(t)
    \/ \E t \in Tabs : EventWake(t)
    \/ \E t \in Tabs : HandleStartDownload(t)
    \/ \E t \in Tabs : EventClickReturns(t)
    \/ TimeoutFires
    \/ EventDownloadCreated
    \/ EventDownloadChanged
    \/ \E t \in Tabs : ConfirmedCloseReturns(t)
    \/ EventTick
    \/ PopupReopened

SpecEvent == InitEvent /\ [][NextEvent]_vars

\* One popup session of popup.js with one tab, with the scheduling the
\* claims about completion assume: messages are delivered, handlers and
\* timers run, time passes.  Nothing is assumed of the downloads.
InitEventSolo == variant = "event" /\ InitCommon(MaxSoloTabs)

NextEventSession ==
    \/ EventStartDownload
    \/ HandleClearStates
    \/ EventBatchBegins
    \/ \E t \in Tabs : EventResponse(t)
    \/ \E t \in Tabs : EventWake(t)
    \/ \E t \in Tabs : HandleStartDownload(t)
    \/ \E t \in Tabs : EventClickReturns(t)
    \/ TimeoutFires
    \/ EventDownloadCreated
    \/ EventDownloadChanged
    \/ \E t \in Tabs : ConfirmedCloseReturns(t)
    \/ EventTick

SpecEventFair ==
    /\ InitEventSolo
    /\ [][NextEventSession]_vars
    /\ WF_vars(HandleClearStates)
    /\ WF_vars(EventBatchBegins)
    /\ WF_vars(TimeoutFires)
    /\ WF_vars(EventTick)
    /\ \A t \in Tabs : WF_vars(EventResponse(t))
    /\ \A t \in Tabs : WF_vars(EventWake(t))
    /\ \A t \in Tabs : WF_vars(HandleStartDownload(t))
    /\ \A t \in Tabs : WF_vars(EventClickReturns(t))
    /\ \A t \in Tabs : WF_vars(ConfirmedCloseReturns(t))

\* One tab, in the polling or the event-driven variant, that the user may
\* close at any time.
InitClose == variant \in {"poll", "event"} /\ InitCommon(MaxSoloTabs)

NextClose ==
    \/ NextPollSolo
    \/ NextEventSession
    \/ \E t \in Tabs : TabClosedByUser(t)

SpecClose == InitClose /\ [][NextClose]_vars

\* One tab with the retry of failed tabs, in one popup session.
InitRetry == variant = "event" /\ InitCommon(MaxSoloTabs)

NextRetry ==
    \/ EventStartDownload
    \/ HandleClearStates
    \/ EventBatchBegins
    \/ \E t \in Tabs : EventResponse(t)
    \/ \E t \in Tabs : EventWake(t)
    \/ \E t \in Tabs : HandleStartDownload(t)
    \/ \E t \in Tabs : EventClickReturns(t)
    \/ TimeoutFires
    \/ EventDownloadCreated
    \/ EventDownloadChanged
    \/ \E t \in Tabs : ConfirmedCloseReturns(t)
    \/ EventTick
    \/ \E t \in Tabs : PopupRetryFailed(t, MaxRetryRequests)
    \/ \E t \in Tabs : HandleRetryFailed(t)
    \/ \E t \in Tabs : RetryTabChecked(t)
    \/ \E t \in Tabs : RetryClickReturns(t)
    \/ \E t \in Tabs : PopupRetryResponse(t)

SpecRetry == InitRetry /\ [][NextRetry]_vars

\* The event-driven variant with a host that may deliver the creation of a
\* download more than once.
NextIdem ==
    \/ NextEvent
    \/ EventDownloadCreatedAgain

SpecIdem == InitEvent /\ [][NextIdem]_vars

\* Two tabs in one popup session of the event-driven variant, with retry
\* requests.
NextOrder ==
    \/ NextEventSession
    \/ \E t \in Tabs : PopupRetryFailed(t, MaxOrderRetries)
    \/ \E t \in Tabs : HandleRetryFailed(t)
    \/ \E t \in Tabs : RetryTabChecked(t)
    \/ \E t \in Tabs : RetryClickReturns(t)
    \/ \E t \in Tabs : PopupRetryResponse(t)

SpecOrder == InitEvent /\ [][NextOrder]_vars

\* Two tabs on the page of the same file, the first with a fragment after
\* its path: the URL of the last tab is a proper prefix of the other's.
InitPrefix ==
    /\ variant = "event"
    /\ segments = <<TabSegments[2]>>
    /\ address = FragmentAddress(MaxWorkerTabs)
    /\ totalTabs \in 0..MaxWorkerTabs
    /\ maxConcurrent \in 1..MaxWorkerTabs
    /\ limitInput = LimitString(maxConcurrent)
    /\ savedLimit = NaN
    /\ dom = [t \in Tabs |-> TypicalPages(t)]
    /\ InitState

SpecPrefix == InitPrefix /\ [][NextEvent]_vars

\* ================================================================== claims
BatchTabs == 1..totalTabs

\* The tabs processNext admitted and has not yet recorded as finished.
InFlight == {t \in Tabs : slot[t] = "active"}

\* C1: in every reachable state of a batch run with limit K >= 1, for each
\* of the three schedulers, the number of tabs admitted and not yet recorded
\* as finished is the counter activeSlots / activeDownloads, and it is at
\* most K.
C1_ActiveWithinLimit ==
    /\ active = Cardinality(InFlight)
    /\ active <= maxConcurrent

\* The limit is what holds the next tab back: K >= 2 tabs are in flight and
\* a tab is still queued.
C1_Witness ==
    /\ maxConcurrent >= 2
    /\ active = maxConcurrent
    /\ currentIndex < totalTabs

\* C2: in a batch run of part_001 in which every processTab request is
\* answered, no tab is ever sent for processing twice, and once the run has
\* started every tab of the list is eventually sent.
C2_EachTabSentOnce ==
    /\ [](\A t \in Tabs : sent[t] <= 1)
    /\ (started ~> (\A t \in BatchTabs : sent[t] = 1))

\* All of three tabs were sent, under a limit of two, while two processNext
\* invocations were suspended at the same time.
C2_Witness ==
    /\ totalTabs = 3
    /\ maxConcurrent = 2
    /\ sleepers >= 2
    /\ \A t \in BatchTabs : sent[t] = 1

\* ------------------------------------------------- polling worker claims
\* processTab for t has returned success.
Succeeded(t) == call[t].phase \in {"responded", "handled"} /\ call[t].success

\* Check 1 and check 2 of the find predicate, seen from the claims.
UrlRule(d, expectedUrl) ==
    expectedUrl # None /\ (d.url = expectedUrl \/ d.finalUrl = expectedUrl)
FilenameRule(d, expectedFilename) ==
    /\ Truthy(expectedFilename)
    /\ d.filename # <<>>
    /\ Includes(d.filename, expectedFilename)

\* C3: no two processTab calls for different tabs return success with the
\* same downloadId.
C3_DownloadClaimedOnce ==
    \A a, b \in Tabs :
        (a # b /\ Succeeded(a) /\ Succeeded(b))
            => call[a].downloadId # call[b].downloadId

\* C4: the download waitForMatchingDownload resolves with always has an id
\* above maxIdBefore, the id recorded before the tab was clicked.
C4_EpochFiltering ==
    \A t \in Tabs :
        call[t].phase = "close" => call[t].downloadId > call[t].maxIdBefore

\* A call has polled without a match and goes on waiting while a download
\* from before its snapshot, complete, has exactly the URL it clicked.
C4_Witness ==
    \E t \in Tabs : \E i \in 1..Len(downloads) :
        /\ call[t].phase = "wait"
        /\ call[t].timers > 0
        /\ downloads[i].id <= call[t].maxIdBefore
        /\ downloads[i].state = "complete"
        /\ call[t].clickedUrl # None
        /\ downloads[i].url = call[t].clickedUrl

\* C5: when a new download satisfies the exact-URL rule for a waiting call a
\* and only the filename rule for another waiting call b, no step resolves b
\* with that download.
C5_ExactUrlBeatsFilename ==
    [][\A a, b \in Tabs : \A i \in 1..Len(downloads) :
          ( /\ a # b
            /\ call[a].phase = "wait"
            /\ call[b].phase = "wait"
            /\ IsNewDownload(downloads[i], call[a].maxIdBefore)
            /\ IsNewDownload(downloads[i], call[b].maxIdBefore)
            /\ UrlRule(downloads[i], call[a].clickedUrl)
            /\ ~UrlRule(downloads[i], call[b].clickedUrl)
            /\ FilenameRule(downloads[i], ExpectedFilename(b)) )
          => ~( /\ call'[b].phase = "close"
                /\ call'[b].downloadId = downloads[i].id )]_vars

\* C6: the promise of waitForMatchingDownload is settled at most once, a
\* settled call has no poll scheduled or running, and a call answers at most
\* once: exactly once when it is over, with a download id when it succeeded.
C6_OneOutcomeNoPollAfter ==
    \A t \in Tabs :
        /\ call[t].settles <= 1
        /\ call[t].responses <= 1
        /\ call[t].settles = 1 => call[t].timers = 0 /\ call[t].searches = 0
        /\ call[t].phase \in {"responded", "handled"} => call[t].responses = 1
        /\ Succeeded(t) => call[t].downloadId # 0

\* A call was settled by the timeout and has answered failure.
C6_Witness ==
    \E t \in Tabs :
        /\ call[t].phase \in {"responded", "handled"}
        /\ ~call[t].success
        /\ call[t].settles = 1

\* ------------------------------------------- event-driven worker claims
\* The pending timeouts that target tab t.
TimersOf(t) == {tm \in timers : tm.tabId = t}

\* C7: an intent in state CLICKED is moved to FAILED only by the timeout
\* that was started for it - the one whose id its entry holds - never by a
\* timeout registered for an earlier intent of the same tab, before the
\* table was cleared.
C7_OnlyOwnTimeoutFails ==
    [][\A t \in Tabs :
          (table[t].state = CLICKED /\ table'[t].state = FAILED)
             => \E tm \in timers \ timers' : tm.id = table[t].timeoutId]_vars

\* C8: once an intent is FAILED or COMPLETED, no download event (a download
\* created, completed, interrupted or resumed) changes its state.
C8_TerminalStatesFinal ==
    [][downloads' # downloads =>
          \A t \in Tabs :
              table[t].state \in {FAILED, COMPLETED}
                 => table'[t].state = table[t].state]_vars

\* C9: every intent in state CLICKED has exactly one pending timeout that
\* targets its tab.
C9_OneTimeoutPerClicked ==
    \A t \in Tabs :
        table[t].state = CLICKED => Cardinality(TimersOf(t)) = 1

\* C10: in a batch run with limit K, at most K intents of the worker's
\* table are in state CLICKED at the same time.
C10_ClickedWithinLimit ==
    reopens = 0 =>
        Cardinality({t \in Tabs : table[t].state = CLICKED}) <= maxConcurrent

\* --------------------------------------------------------- retry claims
\* C11: whatever the failures and the retryFailed requests, a tab is
\* re-actuated by retry at most MAX_RETRY_COUNT times.
C11_RetryBounded ==
    \A t \in Tabs : retried[t] <= MAX_RETRY_COUNT

\* C12: handleRetryFailed re-actuates a tab only when, as it does so, the
\* intent is FAILED with a retryCount below the maximum and the tab is
\* open; a request it rejects (at its tests or after tabs.get) leaves the
\* intent's record as it was and starts no click.
C12_RetryOnlyFromFailed ==
    [][\A t \in Tabs :
          /\ retried'[t] > retried[t]
                => RetryAllowed(table[t]) /\ tabOpen[t]
          /\ ( \/ /\ retry'[t].sent < retry[t].sent
                  /\ retry'[t].checking = retry[t].checking
               \/ /\ retry'[t].checking < retry[t].checking
                  /\ retry'[t].clicking = retry[t].clicking )
                => /\ table'[t] = table[t]
                   /\ retry'[t].clicking = retry[t].clicking
                   /\ retried'[t] = retried[t]]_vars

\* ------------------------------------------------- batch completion claims
\* C13: in a batch run of part_001 in which every processTab request is
\* answered, finishDownload is eventually invoked and isDownloading is false
\* from then on, whatever the mix of successful and failed tabs.
C13_PollBatchFinishes ==
    started ~> [](finishCalls >= 1 /\ ~isDownloading)

\* A batch of three tabs was reported complete with both successful and
\* failed tabs.
C13_Witness ==
    /\ variant = "poll"
    /\ totalTabs = 3
    /\ completed >= 1
    /\ failed >= 1
    /\ finishCalls >= 1
    /\ ~isDownloading

\* C14: in a batch run of popup.js, once every tab of the batch is shown as
\* COMPLETED or FAILED, finishDownload is eventually invoked and
\* isDownloading is false again - also when tabs failed at the click.
C14_EventBatchFinishes ==
    (isDownloading /\ \A t \in BatchTabs : pstate[t] \in {COMPLETED, FAILED})
        ~> (finishCalls >= 1 /\ ~isDownloading)

\* ------------------------------------------------------ tab close claims
\* C15: when closing the tab after a match fails, processTab still answers
\* success with the matched download id, and handleDownloadConfirmed leaves
\* the intent's record (and what the popup shows) as it is.
C15_CloseFailureIsNotFailure ==
    [][\A t \in Tabs :
          /\ (call[t].phase = "close" /\ call'[t].phase # "close")
                => /\ call'[t].phase = "responded"
                   /\ call'[t].success
                   /\ call'[t].downloadId = call[t].downloadId
                   /\ call'[t].downloadId # 0
          /\ (confirming'[t] < confirming[t] /\ ~tabOpen[t])
                => table' = table /\ pstate' = pstate]_vars

\* processTab has answered success although tabs.remove failed.
C15_Witness ==
    \E t \in Tabs : Succeeded(t) /\ call[t].closeFailed

\* ------------------------------------------------------- actuation claims
\* C16: a failed click is answered as a failure and nothing else happens:
\* processTab answers once, without a poll, a wait or a close of the tab;
\* handleStartDownload sets the intent to FAILED and sets no timeout; a click
\* on a tab that is gone always fails; and every click that returns is
\* followed by an answer.
C16_ActuationErrorsAreData ==
    [][\A t \in Tabs :
          /\ (call[t].phase = "click" /\ call'[t].phase # "click")
                => call'[t].phase \in {"wait", "responded"}
          /\ (call[t].phase = "click" /\ call'[t].phase # "click"
                 /\ ~tabOpen[t])
                => call'[t].phase = "responded"
          /\ (call[t].phase = "click" /\ call'[t].phase = "responded")
                => /\ ~call'[t].success
                   /\ call'[t].responses = 1
                   /\ call'[t].searches = 0
                   /\ call'[t].timers = 0
                   /\ call'[t].settles = 0
                   /\ tabOpen' = tabOpen
          /\ (reply[t] = "clicking" /\ reply'[t] # "clicking")
                => reply'[t] \in {"ok", "fail"}
          /\ (reply[t] = "clicking" /\ reply'[t] # "clicking"
                 /\ ~tabOpen[t])
                => reply'[t] = "fail"
          /\ (reply[t] = "clicking" /\ reply'[t] = "fail")
                => /\ table'[t].state = FAILED
                   /\ timers' = timers
                   /\ nextTimerId' = nextTimerId]_vars

\* handleStartDownload has answered a failure for a tab the user had closed:
\* the intent is FAILED and no timeout targets it.
C16_Witness ==
    \E t \in Tabs :
        /\ reply[t] = "fail"
        /\ ~tabOpen[t]
        /\ table[t].state = FAILED
        /\ TimersOf(t) = {}

\* ---------------------------------------------------------- timing claims
\* C17: waitForMatchingDownload rejects with the timeout only when at least
\* DOWNLOAD_TIMEOUT_MS have passed since it started waiting.
C17_NoEarlyTimeout ==
    [][\A t \in Tabs :
          (call[t].settles = 0 /\ call'[t].settles = 1
              /\ call'[t].phase = "responded")
             => /\ call[t].phase = "wait"
                /\ call[t].elapsed >= DOWNLOAD_TIMEOUT_MS
                /\ ~call'[t].success]_vars

\* A call has timed out in a run in which no download was ever started.
C17_Witness ==
    \E t \in Tabs :
        /\ downloads = <<>>
        /\ call[t].phase = "responded"
        /\ ~call[t].success
        /\ call[t].settles = 1

\* ------------------------------------------------------------ idempotence
\* The intents that are no longer waiting for their download.
Resolved == {t \in Tabs : table[t].state \in {DOWNLOADING, COMPLETED, FAILED}}

\* C18: when the callback of a timeout runs for an intent that is no longer
\* CLICKED, or the creation of a download is delivered again, the state and
\* the downloadId of every resolved intent stay as they are and the popup is
\* told of no failure of it.
C18_ResolutionIdempotent ==
    [][(TimeoutFires \/ EventDownloadCreatedAgain)
          => \A t \in Resolved :
                /\ table'[t].state = table[t].state
                /\ table'[t].downloadId = table[t].downloadId
                /\ pstate'[t] = pstate[t]]_vars

\* The timeout that is due next belongs to a tab whose intent was matched
\* by the onCreated listener and is downloading.
C18_Witness ==
    \E tm \in timers :
        /\ \A y \in timers : tm.id <= y.id
        /\ tm.age >= DOWNLOAD_TIMEOUT_MS
        /\ table[tm.tabId].state = DOWNLOADING
        /\ table[tm.tabId].downloadId # 0

\* ------------------------------------------------------- submission order
\* The tier of findMatchingTab in which download d can be given to tab t:
\* 1 by its referrer, 2 by its time and its look, 0 neither.
TierOf(d, t) ==
    IF table[t].state # CLICKED THEN 0
    ELSE IF /\ d.referrer # <<>>
            /\ \/ d.referrer = TabUrl(t)
               \/ StartsWith(TabUrl(t), d.referrer)
    THEN 1
    ELSE IF table[t].age < DOWNLOAD_TIMEOUT_MS /\ IsRapidgatorDownload(d)
    THEN 2
    ELSE 0

\* C19: a created download that several CLICKED intents satisfy in the same
\* tier is given to the one submitted earliest, that is, the one whose
\* current attempt has waited longest.
C19_EarliestSubmittedWins ==
    [][\A m, t \in Tabs :
          LET d == downloads'[Len(downloads')] IN
          (/\ Len(downloads') = Len(downloads) + 1
           /\ table[m].state = CLICKED
           /\ table'[m].state = DOWNLOADING
           /\ TierOf(d, m) # 0
           /\ TierOf(d, t) = TierOf(d, m))
             => table[t].age <= table[m].age]_vars

\* ----------------------------------------------------- singleton fallback
\* The polling worker waits for a download for tab t alone, and knows
\* neither a clicked URL nor a file name to expect.
WaitsAloneBlind(t) ==
    /\ call[t].phase = "wait"
    /\ call[t].settles = 0
    /\ call[t].clickedUrl = None
    /\ ~Truthy(ExpectedFilename(t))
    /\ \A u \in Tabs \ {t} : call[u].phase # "wait"

\* C20: when a search of the polling worker returns for an intent that
\* waits alone with no clicked URL and no expected file name, and a new
\* qualifying download is among the downloads found, the intent is matched
\* with a download.
C20_SingletonFallback ==
    [][\A t \in Tabs :
          (/\ WaitsAloneBlind(t)
           /\ call'[t].searches = call[t].searches - 1
           /\ \E i \in Recent(SEARCH_LIMIT) :
                 IsNewDownload(downloads[i], call[t].maxIdBefore))
             => /\ call'[t].phase = "close"
                /\ call'[t].downloadId # 0]_vars

\* ------------------------------------------------- file name collision
\* C21: three tabs with limit 2, tabs 1 and 3 with the same file name, one
\* download per click in submission order: once the three calls are
\* answered after successful clicks, all three have succeeded and their
\* download ids are pairwise distinct.
C21_CollisionMatchedDistinct ==
    (\A t \in 1..CollisionTabs :
        call[t].phase \in {"responded", "handled"} /\ Clicked(t))
       => /\ \A t \in 1..CollisionTabs : Succeeded(t)
          /\ \A a, b \in 1..CollisionTabs :
                a # b => call[a].downloadId # call[b].downloadId

\* ------------------------------------------------------- closing the tab
\* C22: once a download is matched to an intent (the polling worker's call
\* has its match, or the onCreated listener made the intent DOWNLOADING),
\* the close of the intent's tab is eventually attempted, whether or not any
\* further download event arrives.
C22_MatchLeadsToClose ==
    \A t \in Tabs :
        (call[t].phase = "close" \/ table[t].state = DOWNLOADING)
            ~> ~tabOpen[t]

\* -------------------------------------------------- missing file name
\* C23: for an intent whose expectedFilename could not be extracted, a
\* search that finds a new qualifying download matches the intent with a
\* download: by the clicked URL when the download has it, and also when the
\* click resolved no URL.
C23_NoFilenameStillMatches ==
    [][\A t \in Tabs :
          (/\ call[t].phase = "wait"
           /\ call[t].settles = 0
           /\ ~Truthy(ExpectedFilename(t))
           /\ call'[t].searches = call[t].searches - 1
           /\ \E i \in Recent(SEARCH_LIMIT) :
                 /\ IsNewDownload(downloads[i], call[t].maxIdBefore)
                 /\ \/ call[t].clickedUrl = None
                    \/ UrlRule(downloads[i], call[t].clickedUrl))
             => /\ call'[t].phase = "close"
                /\ call'[t].downloadId # 0]_vars

\* ------------------------------------------------------ the limit in use
\* C24: the limit startDownload bounds the active slots with is an integer
\* in 1..50, whatever the max-concurrency input holds and whether or not the
\* setting was saved.
C24_LimitInRange ==
    started => maxConcurrent \in 1..50

\* ------------------------------------------------- inter-admission delay
\* The time since the last admission: the sleep begun at it is the newest
\* one, and is over after SLEEP_MS.
SinceAdmission ==
    IF sleepAges = <<>> THEN SLEEP_MS ELSE sleepAges[Len(sleepAges)]

\* C25: in a batch run of part_001 every admission but the first comes at
\* least SLEEP_MS after the admission before it, whichever processNext
\* invocation makes it.
C25_AdmissionsSpaced ==
    [][(variant = "poll" /\ currentIndex > 0 /\ currentIndex' > currentIndex)
          => SinceAdmission >= SLEEP_MS]_vars

\* ------------------------------------------------------ click strategies
\* C26: clickDownloadButton clicks exactly one element, that of the first
\* strategy whose element is present - the direct link, then .btn-download,
\* then any /download/ link - and reports its href, none for the button;
\* with no element present it clicks nothing and the call fails.
C26_StrategyPriority ==
    [][\A t \in Tabs : \A pg \in dom[t] :
          (dom[t] = {pg} /\ call[t].phase = "click" /\ call'[t].phase # "click")
             => LET r == ClickDownloadButton(pg)
                    waits == call'[t].phase = "wait"
                    fails == /\ call'[t].phase = "responded"
                             /\ ~call'[t].success
                IN /\ (pg.ok /\ pg.direct # None)
                        => /\ waits /\ call'[t].clickedUrl = pg.direct
                           /\ r.clicked = {"direct"}
                   /\ (pg.ok /\ pg.direct = None /\ pg.btn)
                        => /\ waits /\ call'[t].clickedUrl = None
                           /\ r.clicked = {"btn"}
                   /\ (pg.ok /\ pg.direct = None /\ ~pg.btn /\ pg.generic # None)
                        => /\ waits /\ call'[t].clickedUrl = pg.generic
                           /\ r.clicked = {"generic"}
                   /\ (~pg.ok \/ (pg.direct = None /\ ~pg.btn /\ pg.generic = None))
                        => fails /\ r.clicked = {}]_vars

\* The page has a direct link, the button and another /download/ link
\* before the direct one, and the call waits with the href of the direct
\* link.
C26_Witness ==
    \E t \in Tabs :
        /\ dom[t] = {[ok |-> TRUE, direct |-> LinkOf(t), btn |-> TRUE,
                      generic |-> OtherLink]}
        /\ call[t].phase = "wait"
        /\ call[t].clickedUrl = LinkOf(t)

\* ------------------------------------------------------- rule priority
\* Entry a comes before entry b in the table.
Before(a, b) ==
    \E i, j \in 1..Len(order) : i < j /\ order[i] = a /\ order[j] = b

ClickedTabs == {t \in Tabs : table[t].state = CLICKED}

\* The highest-priority rule of download d that some CLICKED intent
\* satisfies: 1 the referrer, 2 time and look, 0 none.
BestTier(d) ==
    IF \E t \in ClickedTabs : TierOf(d, t) = 1 THEN 1
    ELSE IF \E t \in ClickedTabs : TierOf(d, t) = 2 THEN 2
    ELSE 0

C28_FinishOnce == finishCalls <= 1

\* ------------------------------------------------------ counters conserved
\* The tabs whose processTab response the popup has handled.
Handled == {t \in Tabs : call[t].phase = "handled"}

\* C29: in part_001, completed counts the handled tabs answered with
\* success and failed the handled tabs answered with a failure, so that
\* their sum is the number of handled tabs and never exceeds the number of
\* tabs; once finishDownload has been invoked the sum is the number of tabs
\* and no slot is active.
C29_CountersConserved ==
    variant = "poll" =>
        /\ completed = Cardinality({t \in Handled : call[t].success})
        /\ failed = Cardinality({t \in Handled : ~call[t].success})
        /\ completed + failed = Cardinality(Handled)
        /\ completed + failed <= totalTabs
        /\ finishCalls >= 1 => (completed + failed = totalTabs /\ active = 0)

\* A batch of three tabs has finished with successes and failures.
C29_Witness ==
    /\ variant = "poll"
    /\ totalTabs = MaxTabs
    /\ finishCalls >= 1
    /\ completed >= 1
    /\ failed >= 1

\* ------------------------------------------------------ overlapping retries
\* C30: of the 'retryFailed' requests for one tab that overlap, at most one
\* clicks it: a request replaces the intent's record and starts its click
\* only when no click started by another 'retryFailed' request for that tab
\* is under way, so that the record the other request is working on is not
\* overwritten.
C30_OneClickPerRetry ==
    [][\A t \in Tabs :
          retried'[t] > retried[t] => retry[t].clicking = 0]_vars

\* ------------------------------------------------- exact URL within a call
\* The new downloads a poll of tab t's call sees (lines 158-167).
NewDownloads(t) ==
    {i \in Recent(SEARCH_LIMIT) :
        IsNewDownload(downloads[i], call[t].maxIdBefore)}

\* C31: when a poll resolves a call and the new downloads it sees contain one
\* whose url or finalUrl is the URL the call clicked, the call is resolved
\* with a download that has that URL, not with one that matches by its file
\* name only, whatever the order in which the downloads started.
C31_ExactUrlFirstWithinCall ==
    [][\A t \in Tabs :
          ( /\ call[t].phase = "wait"
            /\ call'[t].phase = "close"
            /\ \E i \in NewDownloads(t) :
                  UrlRule(downloads[i], call[t].clickedUrl) )
          => UrlRule(downloads[call'[t].downloadId], call[t].clickedUrl)]_vars

\* ------------------------------------------------------ processTab answers
\* C32: with every host call returning or failing, every processTab call
\* sent to the worker is eventually answered, exactly once, and the popup
\* releases the slot it occupies.
C32_ProcessTabTerminates ==
    \A t \in Tabs :
        (call[t].phase = "snapshot")
            ~> (call[t].responses = 1 /\ slot[t] = "done")

\* ------------------------------------------------------ expected file name
\* The file name the text describes: the segment percent-decoded, without
\* the page suffix when the segment ends in it; absent for an empty segment
\* and for one that cannot be decoded.
TrailingSuffixRemoved(seg) ==
    IF seg = <<>> \/ DecodeThrows(seg) THEN NullStr
    ELSE IF seg[Len(seg)] = ".html"
    THEN DecodeURIComponent(SubSeq(seg, 1, Len(seg) - 1))
    ELSE DecodeURIComponent(seg)

\* C33: the expected file name processTab works with is the last segment
\* of the tab's URL, percent-decoded, with ".html" removed only where it
\* ends the segment; it is absent when the segment is empty or cannot be
\* decoded.
C33_TrailingSuffixOnly ==
    \A t \in Tabs :
        call[t].phase \in {"click", "wait", "close"}
            => ExpectedFilename(t) = TrailingSuffixRemoved(TabSegment(t))

\* --------------------------------------------------- exact referrer first
\* C34: when a download is created whose referrer is exactly the url of a
\* CLICKED intent, the download is given to an intent with that url, not to
\* one whose url merely begins with the referrer, wherever the intents
\* stand in the table.
C34_ExactReferrerFirst ==
    [][Len(downloads') = Len(downloads) + 1 =>
          LET d == downloads'[Len(downloads')] IN
          \A m \in Tabs :
             ( /\ table'[m].state = DOWNLOADING
               /\ table'[m] # table[m]
               /\ d.referrer # <<>>
               /\ \E t \in ClickedTabs : TabUrl(t) = d.referrer )
             => TabUrl(m) = d.referrer]_vars

====
